---- MODULE Spec2Model ----
(***************************************************************************)
(* A model of weather.py: three tools (get_alerts, get_forecast,           *)
(* get_weather_by_city) over one HTTP helper (make_openweather_request).   *)
(*                                                                         *)
(* Text whose case or content the code inspects (the state code,           *)
(* weather[0].main, weather[0].description) is a sequence of one-character *)
(* strings, so that upper(), lower(), title(), join() and the `in`         *)
(* substring test are computed.  A JSON object is a function from its keys *)
(* (a missing key is a key not in its DOMAIN), a JSON array a sequence.    *)
(* An optional value (Python's None or a value) is <<>> or <<value>>.      *)
(* An output text is the sequence of its lines; a line produced by an      *)
(* f-string is a record of the template and the interpolated values.       *)
(* Temperatures are whole degrees Celsius; a value printed with :.1f is    *)
(* the number of tenths it shows.                                          *)
(***************************************************************************)
EXTENDS Integers, Sequences, FiniteSets, TLC

(* ------------------------------ bounds --------------------------------- *)
\* Number of tool invocations that may be in flight together (ConcSpec).
NProcs == 2
\* Longest `list` array of a /forecast payload.
MaxList == 10

(* ------------------------- program constants --------------------------- *)
OPENWEATHER_API_BASE == "https://api.openweathermap.org/data/2.5"
OPENWEATHER_API_KEY == "162689b8f4e4ebb26d831abc46160b0f"
USER_AGENT == "weather-app/1.0"
\* timeout=30.0 of client.get
REQUEST_TIMEOUT == 30
\* the slice data["list"][:8]
FORECAST_PERIODS == 8

(* ------------------------------ strings -------------------------------- *)
s_CA == <<"C", "A">>
s_NY == <<"N", "Y">>
s_TX == <<"T", "X">>
s_FL == <<"F", "L">>
s_IL == <<"I", "L">>
s_PA == <<"P", "A">>
s_OH == <<"O", "H">>
s_GA == <<"G", "A">>
s_NC == <<"N", "C">>
s_MI == <<"M", "I">>
s_ca == <<"c", "a">>
s_Ny == <<"N", "y">>
s_ZZ == <<"Z", "Z">>
s_zz == <<"z", "z">>
s_empty == <<>>
s_comma_space == <<",", " ">>
s_thunderstorm == <<"t", "h", "u", "n", "d", "e", "r", "s", "t", "o", "r", "m">>
s_snow == <<"s", "n", "o", "w">>
s_blizzard == <<"b", "l", "i", "z", "z", "a", "r", "d">>
s_rain == <<"r", "a", "i", "n">>
s_heavy == <<"h", "e", "a", "v", "y">>
m_Thunderstorm == <<"T", "h", "u", "n", "d", "e", "r", "s", "t", "o", "r", "m">>
m_Snow == <<"S", "n", "o", "w">>
m_Rain == <<"R", "a", "i", "n">>
m_Clear == <<"C", "l", "e", "a", "r">>
d_thunderstorm_rain ==
    <<"t", "h", "u", "n", "d", "e", "r", "s", "t", "o", "r", "m", " ",
      "w", "i", "t", "h", " ", "r", "a", "i", "n">>
d_heavy_rain == <<"h", "e", "a", "v", "y", " ", "r", "a", "i", "n">>
d_Heavy_Rain == <<"H", "e", "a", "v", "y", " ", "R", "a", "i", "n">>
d_blizzard == <<"b", "l", "i", "z", "z", "a", "r", "d">>
d_Blizzard == <<"B", "l", "i", "z", "z", "a", "r", "d">>
d_clear_sky == <<"c", "l", "e", "a", "r", " ", "s", "k", "y">>

ToLower ==
    ("A" :> "a") @@ ("B" :> "b") @@ ("C" :> "c") @@ ("D" :> "d") @@
    ("E" :> "e") @@ ("F" :> "f") @@ ("G" :> "g") @@ ("H" :> "h") @@
    ("I" :> "i") @@ ("J" :> "j") @@ ("K" :> "k") @@ ("L" :> "l") @@
    ("M" :> "m") @@ ("N" :> "n") @@ ("O" :> "o") @@ ("P" :> "p") @@
    ("Q" :> "q") @@ ("R" :> "r") @@ ("S" :> "s") @@ ("T" :> "t") @@
    ("U" :> "u") @@ ("V" :> "v") @@ ("W" :> "w") @@ ("X" :> "x") @@
    ("Y" :> "y") @@ ("Z" :> "z")

ToUpper ==
    ("a" :> "A") @@ ("b" :> "B") @@ ("c" :> "C") @@ ("d" :> "D") @@
    ("e" :> "E") @@ ("f" :> "F") @@ ("g" :> "G") @@ ("h" :> "H") @@
    ("i" :> "I") @@ ("j" :> "J") @@ ("k" :> "K") @@ ("l" :> "L") @@
    ("m" :> "M") @@ ("n" :> "N") @@ ("o" :> "O") @@ ("p" :> "P") @@
    ("q" :> "Q") @@ ("r" :> "R") @@ ("s" :> "S") @@ ("t" :> "T") @@
    ("u" :> "U") @@ ("v" :> "V") @@ ("w" :> "W") @@ ("x" :> "X") @@
    ("y" :> "Y") @@ ("z" :> "Z")

LowerChar(c) == IF c \in DOMAIN ToLower THEN ToLower[c] ELSE c
UpperChar(c) == IF c \in DOMAIN ToUpper THEN ToUpper[c] ELSE c
IsLetter(c) == c \in DOMAIN ToLower \/ c \in DOMAIN ToUpper

\* str.lower()
Lower(s) == [i \in 1..Len(s) |-> LowerChar(s[i])]
\* str.upper()
Upper(s) == [i \in 1..Len(s) |-> UpperChar(s[i])]
\* str.title(): a letter that follows no letter is upper-cased, every other
\* letter lower-cased.
Title(s) ==
    [i \in 1..Len(s) |->
        IF i = 1 \/ ~IsLetter(s[i - 1]) THEN UpperChar(s[i]) ELSE LowerChar(s[i])]
\* sub in s
Contains(sub, s) ==
    \E k \in 0..(Len(s) - Len(sub)) : SubSeq(s, k + 1, k + Len(sub)) = sub
\* sep.join(parts) for parts that are strings
RECURSIVE Join(_, _)
Join(sep, parts) ==
    IF Len(parts) = 0 THEN <<>>
    ELSE IF Len(parts) = 1 THEN parts[1]
    ELSE parts[1] \o sep \o Join(sep, Tail(parts))

(* ----------------------- JSON objects and None -------------------------- *)
\* dict.get(key, default)
Get(d, key, default) == IF key \in DOMAIN d THEN d[key] ELSE default
\* key in dict
Has(d, key) == key \in DOMAIN d
\* the empty dict {}
EmptyDict == <<>>
None == <<>>
Some(v) == <<v>>
\* Python truthiness of a value that is None or a dict: `if data`
Truthy(opt) == opt # None /\ DOMAIN opt[1] # {}

(* --------------------------- rendered text ------------------------------ *)
\* "{t:.1f}°C ({t*9/5+32:.1f}°F)" for a whole number of degrees t: the tenths
\* of a degree that each of the two numbers shows.
TempText(t) == [c10 |-> t * 10, f10 |-> t * 18 + 320]
\* str() of an integer, and a string literal, inside an f-string
IntText(n) == [int |-> n]
StrText(s) == [str |-> s]
\* One line of text that has no interpolated value.
Line(text) == [fmt |-> text]
\* sep.join(blocks) where every block is a sequence of lines and the
\* separator is "\n" + sepLines + "\n": the lines of the joined text.
RECURSIVE JoinBlocks(_, _)
JoinBlocks(sepLines, blocks) ==
    IF Len(blocks) = 0 THEN <<>>
    ELSE IF Len(blocks) = 1 THEN blocks[1]
    ELSE blocks[1] \o sepLines \o JoinBlocks(sepLines, Tail(blocks))

(* ----------------------- make_openweather_request ----------------------- *)
\* What the upstream can answer to one GET: a 2xx response with a JSON body,
\* a 2xx response whose body is no JSON, a non-success status, a timeout, a
\* connection failure.
FailureKinds == {"timeout", "connect_error", "http_error", "invalid_json"}
OkResponse(body) == [kind |-> "ok", body |-> body]
\* A non-success status comes with a body of its own (the upstream's error
\* object); the other failures have none.
Failure(kind) ==
    [kind |-> kind,
     body |-> IF kind = "http_error" THEN [cod |-> 401] ELSE EmptyDict]

\* params["appid"] = OPENWEATHER_API_KEY
SetApiKey(params) == ("appid" :> OPENWEATHER_API_KEY) @@ params
\* client.get(url, headers=headers, params=params, timeout=30.0)
HttpGet(url, params) ==
    [url |-> url,
     headers |-> ("User-Agent" :> USER_AGENT),
     params |-> params,
     timeout |-> REQUEST_TIMEOUT]
\* Variant: response.raise_for_status() is left out.
make_openweather_request_without_raise_for_status(response) ==
    IF response.kind \in {"ok", "http_error"} THEN Some(response.body) ELSE None
\* The value make_openweather_request returns once its GET has ended with
\* `response`: response.json() on success, None after any exception.
make_openweather_request(response) ==
    IF response.kind = "ok" THEN Some(response.body) ELSE None

(* ------------------------------- frames --------------------------------- *)
\* The activation of one tool call: its arguments, its locals, where it is
\* suspended, the GETs it has issued (sent), the responses they ended with
\* (recv), what make_openweather_request returned for each (got), and how the
\* call ended.
NewFrame ==
    [tool |-> "none", args |-> <<>>, pc |-> "idle", city |-> "",
     params |-> EmptyDict, data |-> None,
     outcome |-> "none", result |-> <<>>, exc |-> "",
     sent |-> <<>>, recv |-> <<>>, got |-> <<>>]
\* return text
Return(fr, text) ==
    [fr EXCEPT !.pc = "done", !.outcome = "returned", !.result = text]
\* an exception leaves the tool function
Raise(fr, e) == [fr EXCEPT !.pc = "done", !.outcome = "raised", !.exc = e]
\* await make_openweather_request(url, params), up to its suspension in
\* client.get: the key is added to the caller's params and the GET is sent.
AwaitRequest(fr, url, pc) ==
    LET p == SetApiKey(fr.params)
    IN  [fr EXCEPT !.params = p, !.sent = Append(@, HttpGet(url, p)), !.pc = pc]

(* ------------------------------ get_alerts ------------------------------ *)
state_cities ==
    (s_CA :> "San Francisco") @@ (s_NY :> "New York") @@ (s_TX :> "Houston") @@
    (s_FL :> "Miami") @@ (s_IL :> "Chicago") @@ (s_PA :> "Philadelphia") @@
    (s_OH :> "Columbus") @@ (s_GA :> "Atlanta") @@ (s_NC :> "Charlotte") @@
    (s_MI :> "Detroit")
\* state_cities.keys(), in insertion order
state_cities_keys ==
    <<s_CA, s_NY, s_TX, s_FL, s_IL, s_PA, s_OH, s_GA, s_NC, s_MI>>

UnsupportedLine(state) ==
    [fmt |-> "Alert data not available for state: {state}. Supported states: {keys}",
     state |-> state, keys |-> Join(s_comma_space, state_cities_keys)]
AlertLine(kind, city, state, description) ==
    [fmt |-> kind, city |-> city, state |-> state, desc |-> Title(description)]
WarningLine(kind, city, state, temp) ==
    [fmt |-> kind, city |-> city, state |-> state, temp |-> TempText(temp)]
NoAlertsLine(city, state) ==
    [fmt |-> "No severe weather alerts for {city}, {state} at this time.",
     city |-> city, state |-> state]

\* Variant: the thunderstorm test reads the description.
ConditionAlerts_thunderstorm_in_description(main_weather, description, city, state) ==
    IF Contains(s_thunderstorm, description)
    THEN <<AlertLine("Thunderstorm Alert", city, state, description)>>
    ELSE IF Contains(s_snow, main_weather) \/ Contains(s_blizzard, description)
    THEN <<AlertLine("Winter Weather Alert", city, state, description)>>
    ELSE IF Contains(s_rain, main_weather) /\ Contains(s_heavy, description)
    THEN <<AlertLine("Heavy Rain Alert", city, state, description)>>
    ELSE <<>>
\* Variant: three independent ifs instead of the elif chain.
ConditionAlerts_independent_ifs(main_weather, description, city, state) ==
    (IF Contains(s_thunderstorm, main_weather)
        THEN <<AlertLine("Thunderstorm Alert", city, state, description)>>
        ELSE <<>>)
    \o (IF Contains(s_snow, main_weather) \/ Contains(s_blizzard, description)
        THEN <<AlertLine("Winter Weather Alert", city, state, description)>>
        ELSE <<>>)
    \o (IF Contains(s_rain, main_weather) /\ Contains(s_heavy, description)
        THEN <<AlertLine("Heavy Rain Alert", city, state, description)>>
        ELSE <<>>)
\* Lines 86-92: the condition alerts, an if/elif/elif chain.
ConditionAlerts(main_weather, description, city, state) ==
    IF Contains(s_thunderstorm, main_weather)
    THEN <<AlertLine("Thunderstorm Alert", city, state, description)>>
    ELSE IF Contains(s_snow, main_weather) \/ Contains(s_blizzard, description)
    THEN <<AlertLine("Winter Weather Alert", city, state, description)>>
    ELSE IF Contains(s_rain, main_weather) /\ Contains(s_heavy, description)
    THEN <<AlertLine("Heavy Rain Alert", city, state, description)>>
    ELSE <<>>

\* Lines 95-99: the temperature extremes, an if/elif.
TemperatureAlerts(temp, city, state) ==
    IF temp > 35 THEN <<WarningLine("Heat Warning", city, state, temp)>>
    ELSE IF temp < -10 THEN <<WarningLine("Cold Warning", city, state, temp)>>
    ELSE <<>>

\* Variant: the lookup falls back to a city instead of returning early.
get_alerts_without_table_check(state) ==
    LET fr == [NewFrame EXCEPT !.tool = "get_alerts", !.args = <<state>>]
        city == IF Upper(state) \in DOMAIN state_cities
                THEN state_cities[Upper(state)] ELSE "Nowhere"
        called == [fr EXCEPT !.city = city,
                             !.params = ("q" :> <<city, state, "US">>)
                                        @@ ("units" :> "metric")]
    IN  AwaitRequest(called, OPENWEATHER_API_BASE \o "/weather", "await_data")
\* Lines 50-74: from the call to the suspension in the GET, or to the return
\* for a state that is not in the table.
get_alerts(state) ==
    LET fr == [NewFrame EXCEPT !.tool = "get_alerts", !.args = <<state>>]
    IN  IF Upper(state) \notin DOMAIN state_cities
        THEN Return(fr, <<UnsupportedLine(state)>>)
        ELSE LET city == state_cities[Upper(state)]
                 called == [fr EXCEPT !.city = city,
                                      !.params = ("q" :> <<city, state, "US">>)
                                                 @@ ("units" :> "metric")]
             IN  AwaitRequest(called, OPENWEATHER_API_BASE \o "/weather",
                              "await_data")

\* Lines 74-104: from the end of the GET to the return (or the exception).
get_alerts_resume(fr, response) ==
    LET data == make_openweather_request(response)
        city == fr.city
        state == fr.args[1]
        f == [fr EXCEPT !.data = data, !.recv = Append(@, response),
                        !.got = Append(@, data)]
    IN  IF ~Truthy(data)
        THEN Return(f, <<Line("Unable to fetch weather alert data.")>>)
        ELSE LET weathers == Get(data[1], "weather", <<EmptyDict>>)
             IN  IF Len(weathers) = 0
                 THEN Raise(f, "IndexError")
                 ELSE LET weather == weathers[1]
                          main_weather == Lower(Get(weather, "main", s_empty))
                          description == Get(weather, "description", s_empty)
                          temp == Get(Get(data[1], "main", EmptyDict), "temp", 0)
                          alerts ==
                              ConditionAlerts(main_weather, description, city, state)
                              \o TemperatureAlerts(temp, city, state)
                      IN  IF Len(alerts) = 0
                          THEN Return(f, <<NoAlertsLine(city, state)>>)
                          ELSE Return(f, alerts)

(* -------------------------- subscript errors ---------------------------- *)
\* checks is a sequence of <<holds, exception>>: the exception of the first
\* check that does not hold, "" when all hold.  A check stands for one
\* subscript d[key] or seq[0] of the code, in evaluation order.
FirstError(checks) ==
    IF \A i \in 1..Len(checks) : checks[i][1]
    THEN ""
    ELSE LET i == CHOOSE j \in 1..Len(checks) :
                      /\ ~checks[j][1]
                      /\ \A k \in 1..(j - 1) : checks[k][1]
         IN  checks[i][2]
\* d[key][0] for an array d[key]; {} when the subscripts fail
First(d, key) ==
    IF Has(d, key) /\ Len(d[key]) > 0 THEN d[key][1] ELSE EmptyDict
NonEmpty(d, key) == Has(d, key) /\ Len(d[key]) > 0
Sub(d, key) == Get(d, key, EmptyDict)

(* ----------------------------- get_forecast ----------------------------- *)
\* Lines 135-148: the subscripts of the current-weather block.
CurrentError(cd) ==
    FirstError(<<
        <<Has(cd, "main"), "KeyError">>,
        <<Has(Sub(cd, "main"), "temp"), "KeyError">>,
        <<Has(Sub(cd, "main"), "feels_like"), "KeyError">>,
        <<Has(Sub(cd, "main"), "humidity"), "KeyError">>,
        <<Has(Sub(cd, "main"), "pressure"), "KeyError">>,
        <<Has(cd, "weather"), "KeyError">>,
        <<~Has(cd, "weather") \/ Len(cd["weather"]) > 0, "IndexError">>,
        <<Has(First(cd, "weather"), "description"), "KeyError">> >>)
\* Lines 142-148
CurrentBlock(cd) ==
    << Line("Current Weather:"),
       [fmt |-> "Temperature: {temp}", temp |-> TempText(cd["main"]["temp"])],
       [fmt |-> "Feels like: {temp}", temp |-> TempText(cd["main"]["feels_like"])],
       [fmt |-> "Humidity: {humidity}%", humidity |-> cd["main"]["humidity"]],
       [fmt |-> "Pressure: {pressure} hPa", pressure |-> cd["main"]["pressure"]],
       [fmt |-> "Wind: {speed} m/s", speed |-> Get(Sub(cd, "wind"), "speed", 0)],
       [fmt |-> "Conditions: {desc}",
        desc |-> Title(cd["weather"][1]["description"])] >>
\* Lines 155-160: the subscripts of one period.
PeriodError(period) ==
    FirstError(<<
        <<Has(period, "dt_txt"), "KeyError">>,
        <<Has(period, "main"), "KeyError">>,
        <<Has(Sub(period, "main"), "temp"), "KeyError">>,
        <<Has(Sub(period, "main"), "feels_like"), "KeyError">>,
        <<Has(Sub(period, "main"), "humidity"), "KeyError">>,
        <<Has(period, "weather"), "KeyError">>,
        <<~Has(period, "weather") \/ Len(period["weather"]) > 0, "IndexError">>,
        <<Has(First(period, "weather"), "description"), "KeyError">>,
        <<Has(period, "wind"), "KeyError">>,
        <<Has(Sub(period, "wind"), "speed"), "KeyError">> >>)
\* hours_ahead = (i + 1) * 3 for the 0-based index i of enumerate; k = i + 1
hours_ahead(k) == k * 3
\* Lines 165-170; k is the 1-based position of the period
PeriodBlock(k, period) ==
    << [fmt |-> "In {hours_ahead} hours ({dt_txt}):",
        hours |-> hours_ahead(k), dt_txt |-> period["dt_txt"]],
       [fmt |-> "Temperature: {temp}", temp |-> TempText(period["main"]["temp"])],
       [fmt |-> "Feels like: {temp}",
        temp |-> TempText(period["main"]["feels_like"])],
       [fmt |-> "Humidity: {humidity}%", humidity |-> period["main"]["humidity"]],
       [fmt |-> "Wind: {speed} m/s", speed |-> period["wind"]["speed"]],
       [fmt |-> "Conditions: {desc}",
        desc |-> Title(period["weather"][1]["description"])] >>
\* data["list"][:8]
forecast_list(data) ==
    SubSeq(data["list"], 1,
           IF Len(data["list"]) < FORECAST_PERIODS
           THEN Len(data["list"]) ELSE FORECAST_PERIODS)
SeparatorLines == <<Line("---")>>

\* Lines 115-122: from the call to the suspension in the /forecast GET.
get_forecast(latitude, longitude) ==
    LET fr == [NewFrame EXCEPT !.tool = "get_forecast",
                               !.args = <<latitude, longitude>>,
                               !.params = ("lat" :> latitude)
                                          @@ ("lon" :> longitude)
                                          @@ ("units" :> "metric")]
    IN  AwaitRequest(fr, OPENWEATHER_API_BASE \o "/forecast", "await_data")
\* Variant: only `if not data`, without the test for "list".
get_forecast_resume_without_list_check(fr, response) ==
    LET data == make_openweather_request(response)
        f == [fr EXCEPT !.data = data, !.recv = Append(@, response),
                        !.got = Append(@, data)]
    IN  IF ~Truthy(data)
        THEN Return(f, <<Line("Unable to fetch forecast data for this location.")>>)
        ELSE AwaitRequest(f, OPENWEATHER_API_BASE \o "/weather", "await_current")
\* Lines 122-129: from the end of the /forecast GET to the return of the
\* failure text or to the suspension in the /weather GET.
get_forecast_resume(fr, response) ==
    LET data == make_openweather_request(response)
        f == [fr EXCEPT !.data = data, !.recv = Append(@, response),
                        !.got = Append(@, data)]
    IN  IF ~Truthy(data) \/ ~Has(data[1], "list")
        THEN Return(f, <<Line("Unable to fetch forecast data for this location.")>>)
        ELSE AwaitRequest(f, OPENWEATHER_API_BASE \o "/weather", "await_current")
\* Lines 129-173: from the end of the /weather GET to the return.
get_forecast_resume_current(fr, response) ==
    LET current_data == make_openweather_request(response)
        f == [fr EXCEPT !.recv = Append(@, response),
                        !.got = Append(@, current_data)]
        periods == forecast_list(fr.data[1])
        current_exc == IF Truthy(current_data) THEN CurrentError(current_data[1])
                       ELSE ""
        bad == {k \in 1..Len(periods) : PeriodError(periods[k]) # ""}
    IN  IF current_exc # "" THEN Raise(f, current_exc)
        ELSE IF bad # {}
        THEN Raise(f, PeriodError(periods[CHOOSE k \in bad : \A j \in bad : k <= j]))
        ELSE LET forecasts ==
                     (IF Truthy(current_data) THEN <<CurrentBlock(current_data[1])>>
                      ELSE <<>>)
                     \o [k \in 1..Len(periods) |-> PeriodBlock(k, periods[k])]
             IN  Return(f, JoinBlocks(SeparatorLines, forecasts))

(* -------------------------- get_weather_by_city ------------------------- *)
\* Lines 183-189: from the call to the suspension in the GET.
get_weather_by_city(city, country_code) ==
    LET fr == [NewFrame EXCEPT !.tool = "get_weather_by_city",
                               !.args = <<city, country_code>>,
                               !.params = ("q" :> <<city, country_code>>)
                                          @@ ("units" :> "metric")]
    IN  AwaitRequest(fr, OPENWEATHER_API_BASE \o "/weather", "await_data")
\* Lines 195-210: the subscripts of the report, in evaluation order.
ReportError(data) ==
    FirstError(<<
        <<Has(data, "main"), "KeyError">>,
        <<Has(data, "weather"), "KeyError">>,
        <<~Has(data, "weather") \/ Len(data["weather"]) > 0, "IndexError">>,
        <<Has(Sub(data, "main"), "temp"), "KeyError">>,
        <<Has(Sub(data, "main"), "feels_like"), "KeyError">>,
        <<Has(data, "name"), "KeyError">>,
        <<Has(First(data, "weather"), "description"), "KeyError">>,
        <<Has(Sub(data, "main"), "humidity"), "KeyError">>,
        <<Has(Sub(data, "main"), "pressure"), "KeyError">> >>)
\* Variant: the default of visibility is 0, as for the other fields.
VisibilityText_zero_default(data) == IntText(Get(data, "visibility", 0))
\* data.get('visibility', 'N/A') inside the f-string
VisibilityText(data) ==
    IF Has(data, "visibility") THEN IntText(data["visibility"]) ELSE StrText("N/A")
\* Lines 204-214
WeatherReport(data, country_code) ==
    LET main == data["main"]
        weather == data["weather"][1]
        wind == Get(data, "wind", EmptyDict)
        clouds == Get(data, "clouds", EmptyDict)
        sys == Get(data, "sys", EmptyDict)
    IN  << [fmt |-> "Weather for {name}, {country}:",
            name |-> data["name"], country |-> Get(sys, "country", country_code)],
           Line(""),
           [fmt |-> "Temperature: {temp}", temp |-> TempText(main["temp"])],
           [fmt |-> "Feels like: {temp}", temp |-> TempText(main["feels_like"])],
           [fmt |-> "Conditions: {desc}", desc |-> Title(weather["description"])],
           [fmt |-> "Humidity: {humidity}%", humidity |-> main["humidity"]],
           [fmt |-> "Pressure: {pressure} hPa", pressure |-> main["pressure"]],
           [fmt |-> "Wind Speed: {speed} m/s", speed |-> Get(wind, "speed", 0)],
           [fmt |-> "Wind Direction: {deg}°", deg |-> Get(wind, "deg", 0)],
           [fmt |-> "Cloudiness: {all}%", all |-> Get(clouds, "all", 0)],
           [fmt |-> "Visibility: {visibility} meters",
            visibility |-> VisibilityText(data)] >>
\* Lines 189-216: from the end of the GET to the return (or the exception).
get_weather_by_city_resume(fr, response) ==
    LET data == make_openweather_request(response)
        f == [fr EXCEPT !.data = data, !.recv = Append(@, response),
                        !.got = Append(@, data)]
    IN  IF ~Truthy(data)
        THEN Return(f, <<[fmt |-> "Unable to fetch weather data for {city}, {country_code}.",
                          city |-> fr.args[1], country |-> fr.args[2]]>>)
        ELSE IF ReportError(data[1]) # ""
        THEN Raise(f, ReportError(data[1]))
        ELSE Return(f, WeatherReport(data[1], fr.args[2]))

\* The continuation of a suspended frame when its GET ends with `response`.
Resume(fr, response) ==
    CASE fr.tool = "get_alerts" -> get_alerts_resume(fr, response)
      [] fr.tool = "get_weather_by_city" -> get_weather_by_city_resume(fr, response)
      [] fr.tool = "get_forecast" /\ fr.pc = "await_data" ->
            get_forecast_resume(fr, response)
      [] fr.tool = "get_forecast" /\ fr.pc = "await_current" ->
            get_forecast_resume_current(fr, response)

(* ------------------------------- inputs --------------------------------- *)
\* The dicts that have key k with a value of S, and the dict without k.
Opt(k, S) == {EmptyDict} \cup {k :> v : v \in S}
\* The dicts over the keys of `full` that keep any subset of them.
SubDicts(full) == {[k \in K |-> full[k]] : K \in SUBSET DOMAIN full}
\* d without key k
Without(d, k) == [x \in DOMAIN d \ {k} |-> d[x]]
\* Every payload but {} carries the upstream's status field.
Cod == ("cod" :> 200)
Failures == {Failure(k) : k \in FailureKinds}

\* get_alerts: the state argument, and the /weather payloads it may be given.
StateArgs == {s_CA, s_ca, s_Ny, s_MI, s_ZZ, s_zz, s_empty}
AlertTemps == {-11, -10, 0, 20, 35, 36, 40}
AlertWeatherEntries ==
    {m @@ d : m \in Opt("main", {m_Thunderstorm, m_Snow, m_Rain, m_Clear}),
              d \in Opt("description",
                        {d_thunderstorm_rain, d_heavy_rain, d_Heavy_Rain,
                         d_blizzard, d_Blizzard, d_clear_sky})}
AlertPayloads ==
    {EmptyDict} \cup
    {Cod @@ w @@ m :
        w \in Opt("weather", {<<>>} \cup {<<e>> : e \in AlertWeatherEntries}),
        m \in Opt("main", {EmptyDict} \cup {[temp |-> t] : t \in AlertTemps})}

\* get_forecast: coordinates, /forecast payloads and /weather payloads.
Coordinates == {<<37, -122>>}
FullPeriod(k) ==
    [dt_txt |-> k,
     main |-> [temp |-> 10 + k, feels_like |-> 9 + k, humidity |-> 50 + k],
     weather |-> <<[description |-> d_clear_sky]>>,
     wind |-> [speed |-> k]]
PeriodFaults ==
    {"dt_txt", "main", "temp", "feels_like", "humidity", "weather",
     "weather_empty", "description", "wind", "speed"}
Damaged(p, fault) ==
    CASE fault \in {"dt_txt", "main", "weather", "wind"} -> Without(p, fault)
      [] fault \in {"temp", "feels_like", "humidity"} ->
            [p EXCEPT !.main = Without(@, fault)]
      [] fault = "weather_empty" -> [p EXCEPT !.weather = <<>>]
      [] fault = "description" -> [p EXCEPT !.weather = <<EmptyDict>>]
      [] fault = "speed" -> [p EXCEPT !.wind = EmptyDict]
\* The list of n periods, all well formed (bad = 0) or all but the one at
\* position bad, which has the fault.
PeriodList(n, bad, fault) ==
    [k \in 1..n |-> IF k = bad THEN Damaged(FullPeriod(k), fault) ELSE FullPeriod(k)]
ForecastPayloads ==
    {EmptyDict, Cod} \cup
    {Cod @@ ("list" :> PeriodList(n, 0, "main")) : n \in 0..MaxList} \cup
    {Cod @@ ("list" :> PeriodList(n, bad, fault)) :
        n \in 1..MaxList, bad \in 1..MaxList, fault \in PeriodFaults}
FullMain == [temp |-> 20, feels_like |-> 18, humidity |-> 40, pressure |-> 1013]
WeatherArrays == {<<>>, <<EmptyDict>>, <<[description |-> d_heavy_rain]>>}
FullCurrent ==
    Cod @@ [main |-> FullMain, weather |-> <<[description |-> d_heavy_rain]>>,
            wind |-> [speed |-> 5]]
\* The full payload, and the payloads that lack one of its fields.
CurrentPayloads ==
    {EmptyDict, Cod, FullCurrent}
    \cup {Without(FullCurrent, k) : k \in {"main", "weather", "wind"}}
    \cup {[FullCurrent EXCEPT !.main = Without(@, k)] : k \in DOMAIN FullMain}
    \cup {[FullCurrent EXCEPT !.weather = w] : w \in WeatherArrays}
    \cup {[FullCurrent EXCEPT !.wind = EmptyDict]}

\* get_weather_by_city: arguments and /weather payloads.
CityArgs == {<<"London", "GB">>}
CityPayloads ==
    {EmptyDict} \cup
    {Cod @@ m @@ w @@ n @@ v @@ c @@ s @@ z :
        m \in Opt("main", SubDicts(FullMain)),
        w \in Opt("weather", WeatherArrays),
        n \in Opt("name", {"City of London"}),
        v \in Opt("wind", SubDicts([speed |-> 5, deg |-> 270])),
        c \in Opt("clouds", SubDicts([all |-> 75])),
        s \in Opt("sys", SubDicts([country |-> "UK"])),
        z \in Opt("visibility", {10000})}

Responses(payloads) == Failures \cup {OkResponse(b) : b \in payloads}
\* What the upstream may answer to the GET that `fr` is suspended in.
Upstream(fr) ==
    CASE fr.pc \notin {"await_data", "await_current"} -> {}
      [] fr.tool = "get_alerts" -> Responses(AlertPayloads)
      [] fr.tool = "get_weather_by_city" -> Responses(CityPayloads)
      [] fr.tool = "get_forecast" /\ fr.pc = "await_data" ->
            Responses(ForecastPayloads)
      [] fr.tool = "get_forecast" /\ fr.pc = "await_current" ->
            Responses(CurrentPayloads)

(* ---------------------------- state machine ----------------------------- *)
\* frames[i]: the activation of invocation i (its params field is the
\* reference ParamsRef(i)); heap[r]: the dict that reference r points to.
VARIABLES frames, heap
vars == <<frames, heap>>

Procs == 1..NProcs
\* Variant: one module-level params dict that every call fills in.
ParamsRef_shared(i) == 1
\* params = {...} binds the local name to a dict of its own for each call.
ParamsRef(i) == i
\* The frame of i with its params dict read through the reference.
Load(i) == [frames[i] EXCEPT !.params = heap[ParamsRef(i)]]
\* The frame of i after a step: the dict goes to the heap.
Store(i, fr) ==
    /\ frames' = [frames EXCEPT ![i] = [fr EXCEPT !.params = ParamsRef(i)]]
    /\ heap' = [heap EXCEPT ![ParamsRef(i)] = fr.params]

Init ==
    /\ frames = [i \in Procs |-> [NewFrame EXCEPT !.params = ParamsRef(i)]]
    /\ heap = [r \in Procs |-> EmptyDict]

\* The host invokes a tool: the coroutine runs to its first suspension.
CallGetAlerts(i, state) ==
    /\ frames[i].pc = "idle"
    /\ Store(i, get_alerts(state))
CallGetForecast(i, latitude, longitude) ==
    /\ frames[i].pc = "idle"
    /\ Store(i, get_forecast(latitude, longitude))
CallGetWeatherByCity(i, city, country_code) ==
    /\ frames[i].pc = "idle"
    /\ Store(i, get_weather_by_city(city, country_code))
\* The GET that i is suspended in ends: the coroutine runs to its next
\* suspension or to its end.
HttpDone(i, response) ==
    /\ frames[i].pc \in {"await_data", "await_current"}
    /\ Store(i, Resume(Load(i), response))

\* One invocation, any argument and any upstream answer.
Next ==
    \/ \E state \in StateArgs : CallGetAlerts(1, state)
    \/ \E c \in Coordinates : CallGetForecast(1, c[1], c[2])
    \/ \E a \in CityArgs : CallGetWeatherByCity(1, a[1], a[2])
    \/ \E response \in Upstream(frames[1]) : HttpDone(1, response)
Spec == Init /\ [][Next]_vars

(* ----------------------- concurrent invocations -------------------------- *)
\* Every invocation slot may be called, and the GETs end in any order.
ConcStateArgs == {s_ca, s_ZZ}
ConcCoordinates == {<<37, -122>>, <<51, 0>>}
ConcCityArgs == {<<"London", "GB">>}
ConcAlertPayload ==
    Cod @@ [weather |-> <<[main |-> m_Thunderstorm,
                           description |-> d_thunderstorm_rain]>>,
            main |-> [temp |-> 40]]
ConcUpstream(fr) ==
    CASE fr.pc \notin {"await_data", "await_current"} -> {}
      [] fr.tool = "get_alerts" ->
            {Failure("timeout"), OkResponse(ConcAlertPayload)}
      [] fr.tool = "get_weather_by_city" ->
            {Failure("http_error"),
             OkResponse(FullCurrent @@ ("name" :> "City of London"))}
      [] fr.tool = "get_forecast" /\ fr.pc = "await_data" ->
            {Failure("connect_error"),
             OkResponse(Cod @@ ("list" :> PeriodList(2, 0, "main")))}
      [] fr.tool = "get_forecast" /\ fr.pc = "await_current" ->
            {Failure("timeout"), OkResponse(FullCurrent)}
ConcNext ==
    \E i \in Procs :
        \/ \E state \in ConcStateArgs : CallGetAlerts(i, state)
        \/ \E c \in ConcCoordinates : CallGetForecast(i, c[1], c[2])
        \/ \E a \in ConcCityArgs : CallGetWeatherByCity(i, a[1], a[2])
        \/ \E response \in ConcUpstream(frames[i]) : HttpDone(i, response)
ConcSpec == Init /\ [][ConcNext]_vars

(* ------------------------------- claims --------------------------------- *)
Awaiting(fr) == fr.pc \in {"await_data", "await_current"}
\* The /weather answer a get_alerts or get_weather_by_city call was resumed
\* with was a JSON object with at least one field.
GotPayload(fr, tool) ==
    /\ fr.tool = tool
    /\ Len(fr.recv) = 1
    /\ fr.recv[1].kind = "ok"
    /\ DOMAIN fr.recv[1].body # {}
\* The city the table gives for the state argument.
ResolvedCity(fr) == state_cities[Upper(fr.args[1])]
\* weather[0] of a payload; {} when the payload has no weather entry.
Condition(body) == First(body, "weather")
\* main.temp of a payload, a missing temperature counting as 0.
Temperature(body) == Get(Sub(body, "main"), "temp", 0)
ConditionKinds == {"Thunderstorm Alert", "Winter Weather Alert", "Heavy Rain Alert"}
TemperatureKinds == {"Heat Warning", "Cold Warning"}
IsConditionLine(line) == line.fmt \in ConditionKinds
IsTemperatureLine(line) == line.fmt \in TemperatureKinds

\* C1: a state argument whose upper-cased form is no key of the table makes
\* get_alerts return, without any GET ever being sent, one message that
\* holds the list of all supported codes, "CA, NY, TX, FL, IL, PA, OH, GA,
\* NC, MI".
C1_SupportedCodes ==
    <<"C", "A", ",", " ", "N", "Y", ",", " ", "T", "X", ",", " ", "F", "L", ",", " ", "I", "L", ",", " ">>
    \o <<"P", "A", ",", " ", "O", "H", ",", " ", "G", "A", ",", " ", "N", "C", ",", " ", "M", "I">>
C1_UnsupportedStateRejected ==
    \A i \in Procs :
        LET fr == Load(i)
        IN  (fr.tool = "get_alerts" /\ Upper(fr.args[1]) \notin DOMAIN state_cities)
            => /\ fr.sent = <<>>
               /\ fr.recv = <<>>
               /\ fr.pc = "done"
               /\ fr.outcome = "returned"
               /\ Len(fr.result) = 1
               /\ fr.result[1].state = fr.args[1]
               /\ fr.result[1].keys = C1_SupportedCodes
               /\ \A key \in DOMAIN state_cities : Contains(key, fr.result[1].keys)
C1_Witness ==
    \E i \in Procs :
        /\ Load(i).tool = "get_alerts"
        /\ Load(i).args = <<s_zz>>
        /\ Load(i).outcome = "returned"
        /\ Load(i).sent = <<>>

\* C2: a GET that ends in a timeout, a connection failure, a non-success
\* status (or a body that is no JSON) makes make_openweather_request return
\* None, never a payload; a tool whose data request failed so returns its
\* explanatory text and raises nothing, and get_forecast, when only its
\* /weather request failed, returns a text without the current block.
C2_FailureText(fr) ==
    CASE fr.tool = "get_alerts" -> <<Line("Unable to fetch weather alert data.")>>
      [] fr.tool = "get_forecast" ->
            <<Line("Unable to fetch forecast data for this location.")>>
      [] fr.tool = "get_weather_by_city" ->
            <<[fmt |-> "Unable to fetch weather data for {city}, {country_code}.",
               city |-> fr.args[1], country |-> fr.args[2]]>>
C2_UpstreamFailureContained ==
    \A i \in Procs :
        LET fr == Load(i)
        IN  /\ \A k \in 1..Len(fr.recv) :
                  fr.recv[k].kind \in FailureKinds => fr.got[k] = None
            /\ (Len(fr.recv) >= 1 /\ fr.recv[1].kind \in FailureKinds)
               => /\ fr.pc = "done"
                  /\ fr.outcome = "returned"
                  /\ fr.result = C2_FailureText(fr)
                  /\ Len(fr.sent) = 1
            /\ (Len(fr.recv) = 2 /\ fr.recv[2].kind \in FailureKinds
                /\ fr.outcome = "returned")
               => \A k \in 1..Len(fr.result) : fr.result[k].fmt # "Current Weather:"
C2_Witness ==
    \E i \in Procs :
        /\ Load(i).tool = "get_weather_by_city"
        /\ Len(Load(i).recv) = 1
        /\ Load(i).recv[1].kind = "http_error"
        /\ Load(i).outcome = "returned"

\* C3: every invocation of the three tools ends by returning a text, whatever
\* the upstream answers and whichever consumed fields the payload lacks; none
\* ends in an exception.
C3_NoInvocationRaises ==
    \A i \in Procs : Load(i).pc = "done" => Load(i).outcome = "returned"

\* C4: what the claim promises of the output once the thunderstorm rule is to
\* fire: the thunderstorm alert naming the resolved city, and at 40 degrees
\* the heat warning with it, the two being the two lines of the result.
C4_Alerted(fr) ==
    LET body == fr.recv[1].body
    IN  /\ fr.outcome = "returned"
        /\ \E k \in 1..Len(fr.result) :
              /\ fr.result[k].fmt = "Thunderstorm Alert"
              /\ fr.result[k].city = ResolvedCity(fr)
        /\ Temperature(body) = 40
           => /\ Len(fr.result) = 2
              /\ \E k \in 1..Len(fr.result) :
                    /\ fr.result[k].fmt = "Heat Warning"
                    /\ fr.result[k].city = ResolvedCity(fr)
                    /\ fr.result[k].temp = [c10 |-> 400, f10 |-> 1040]
\* C4 (as claimed): a payload whose condition description contains
\* "thunderstorm" gets the thunderstorm alert naming the resolved city, with
\* the heat warning on a second line when the temperature is 40.
C4_DescriptionThunderstorm ==
    \A i \in Procs :
        LET fr == Load(i)
        IN  (/\ GotPayload(fr, "get_alerts")
             /\ Contains(s_thunderstorm,
                         Get(Condition(fr.recv[1].body), "description", s_empty)))
            => C4_Alerted(fr)
\* C4 (amended): a payload whose condition category weather[0].main,
\* lower-cased, contains "thunderstorm" gets the thunderstorm alert naming the
\* resolved city, with the heat warning on a second line when the temperature
\* is 40.
C4_CategoryThunderstorm ==
    \A i \in Procs :
        LET fr == Load(i)
        IN  (/\ GotPayload(fr, "get_alerts")
             /\ Contains(s_thunderstorm,
                         Lower(Get(Condition(fr.recv[1].body), "main", s_empty))))
            => C4_Alerted(fr)
C4_Witness ==
    \E i \in Procs :
        /\ GotPayload(Load(i), "get_alerts")
        /\ Load(i).args = <<s_ca>>
        /\ Get(Condition(Load(i).recv[1].body), "main", s_empty) = m_Thunderstorm
        /\ Get(Condition(Load(i).recv[1].body), "description", s_empty) = d_clear_sky
        /\ Temperature(Load(i).recv[1].body) = 40
        /\ Len(Load(i).result) = 2

\* The fired condition rule, in the priority order thunderstorm, snow or
\* blizzard, heavy rain ("" when none matches), for a category and a
\* description as given.
ExpectedCondition(category, description) ==
    IF Contains(s_thunderstorm, category) THEN "Thunderstorm Alert"
    ELSE IF Contains(s_snow, category) \/ Contains(s_blizzard, description)
    THEN "Winter Weather Alert"
    ELSE IF Contains(s_rain, category) /\ Contains(s_heavy, description)
    THEN "Heavy Rain Alert"
    ELSE ""
ExpectedTemperature(t) ==
    IF t > 35 THEN "Heat Warning" ELSE IF t < -10 THEN "Cold Warning" ELSE ""

\* C5: for a supported state and a successful payload, get_alerts returns
\* exactly the sentinel naming the resolved city if and only if no condition
\* rule matches and -10 <= t <= 35, a missing temperature counting as 0.
C5_SentinelIffNoRuleFires ==
    \A i \in Procs :
        LET fr == Load(i)
            body == fr.recv[1].body
            entry == Condition(body)
        IN  GotPayload(fr, "get_alerts")
            => ((/\ fr.outcome = "returned"
                 /\ fr.result =
                      <<[fmt |-> "No severe weather alerts for {city}, {state} at this time.",
                         city |-> ResolvedCity(fr), state |-> fr.args[1]]>>)
                <=> (/\ ExpectedCondition(Lower(Get(entry, "main", s_empty)),
                                          Get(entry, "description", s_empty)) = ""
                     /\ Temperature(body) >= -10
                     /\ Temperature(body) <= 35))

\* The header lines of the period blocks of a forecast text.
IsPeriodHeader(line) == line.fmt = "In {hours_ahead} hours ({dt_txt}):"
IsSeparator(line) == line.fmt = "---"
Min(a, b) == IF a < b THEN a ELSE b
\* C6's rendering for a frame whose /forecast payload has a list of well
\* formed entries: min(n, 8) period blocks from the first entries in order,
\* the k-th labeled 3k hours with that entry's timestamp; the current block
\* exactly when hasCurrent, and then first; "---" between consecutive blocks.
C6_Rendered(fr, hasCurrent) ==
    LET list == fr.recv[1].body["list"]
        heads == SelectSeq(fr.result, IsPeriodHeader)
        blocks == Min(Len(list), FORECAST_PERIODS) + (IF hasCurrent THEN 1 ELSE 0)
    IN  /\ fr.outcome = "returned"
        /\ Len(heads) = Min(Len(list), 8)
        /\ \A k \in 1..Len(heads) :
              /\ heads[k].hours = 3 * k
              /\ heads[k].dt_txt = list[k]["dt_txt"]
        /\ hasCurrent
           <=> (Len(fr.result) > 0 /\ fr.result[1].fmt = "Current Weather:")
        /\ \A k \in 2..Len(fr.result) : fr.result[k].fmt # "Current Weather:"
        /\ Len(SelectSeq(fr.result, IsSeparator)) = (IF blocks = 0 THEN 0 ELSE blocks - 1)
        /\ \A k \in 1..Len(fr.result) :
              IsSeparator(fr.result[k])
              => /\ k > 1 /\ k < Len(fr.result)
                 /\ IsPeriodHeader(fr.result[k + 1])
C6_WellFormedList(fr) ==
    /\ fr.tool = "get_forecast"
    /\ fr.pc = "done"
    /\ fr.recv[1].kind = "ok"
    /\ Has(fr.recv[1].body, "list")
    /\ \A k \in 1..Len(fr.recv[1].body["list"]) :
          PeriodError(fr.recv[1].body["list"][k]) = ""
\* C6: for a /forecast payload whose list has n well-formed entries,
\* get_forecast renders min(n, 8) period blocks labeled 3, 6, ... with the
\* entries' timestamps, the current-weather block first exactly when the
\* /weather query returned a payload, and "---" between consecutive blocks.
C6_ForecastRendering ==
    \A i \in Procs :
        LET fr == Load(i)
        IN  C6_WellFormedList(fr)
            => C6_Rendered(fr, fr.recv[2].kind = "ok"
                               /\ DOMAIN fr.recv[2].body # {})
\* The part of C6 that the code keeps: the same rendering whenever the
\* /weather query failed or returned a payload with every field the current
\* block subscripts.
C6_RenderingWithUsableCurrent ==
    \A i \in Procs :
        LET fr == Load(i)
        IN  (/\ C6_WellFormedList(fr)
             /\ (Truthy(fr.got[2]) => CurrentError(fr.got[2][1]) = ""))
            => C6_Rendered(fr, Truthy(fr.got[2]))

\* C7: a /weather payload with the required fields (main.temp,
\* main.feels_like, main.humidity, main.pressure, weather[0].description,
\* name) yields a report, never an exception, in which a missing visibility is
\* the marker "N/A", a missing wind.deg is 0, a missing wind.speed is 0, a
\* missing clouds.all is 0 and a missing sys.country is the requested
\* country_code; a field that is present is rendered with its payload value.
C7_HasRequired(body) ==
    /\ Has(body, "main")
    /\ \A k \in {"temp", "feels_like", "humidity", "pressure"} : Has(body["main"], k)
    /\ NonEmpty(body, "weather")
    /\ Has(body["weather"][1], "description")
    /\ Has(body, "name")
C7_OptionalFieldDefaults ==
    \A i \in Procs :
        LET fr == Load(i)
            body == fr.recv[1].body
        IN  (GotPayload(fr, "get_weather_by_city") /\ C7_HasRequired(body))
            => /\ fr.outcome = "returned"
               /\ Len(fr.result) = 11
               /\ fr.result[1].name = body["name"]
               /\ fr.result[1].country =
                     (IF Has(Sub(body, "sys"), "country")
                      THEN body["sys"]["country"] ELSE fr.args[2])
               /\ fr.result[8].fmt = "Wind Speed: {speed} m/s"
               /\ fr.result[8].speed =
                     (IF Has(Sub(body, "wind"), "speed")
                      THEN body["wind"]["speed"] ELSE 0)
               /\ fr.result[9].fmt = "Wind Direction: {deg}°"
               /\ fr.result[9].deg =
                     (IF Has(Sub(body, "wind"), "deg") THEN body["wind"]["deg"] ELSE 0)
               /\ fr.result[10].fmt = "Cloudiness: {all}%"
               /\ fr.result[10].all =
                     (IF Has(Sub(body, "clouds"), "all")
                      THEN body["clouds"]["all"] ELSE 0)
               /\ fr.result[11].fmt = "Visibility: {visibility} meters"
               /\ fr.result[11].visibility =
                     (IF Has(body, "visibility")
                      THEN [int |-> body["visibility"]] ELSE [str |-> "N/A"])
C7_Witness ==
    \E i \in Procs :
        LET fr == Load(i)
        IN  /\ GotPayload(fr, "get_weather_by_city")
            /\ C7_HasRequired(fr.recv[1].body)
            /\ ~Has(fr.recv[1].body, "visibility")
            /\ Has(fr.recv[1].body, "wind")
            /\ ~Has(fr.recv[1].body["wind"], "deg")
            /\ ~Has(fr.recv[1].body, "sys")
            /\ fr.outcome = "returned"
            /\ fr.result[11].visibility = [str |-> "N/A"]
            /\ fr.result[9].deg = 0
            /\ fr.result[1].country = "GB"

\* C8: every call of make_openweather_request sends one GET and none is sent
\* again after a failure, so the GETs of an invocation are one more than the
\* responses while it is suspended and as many once it has ended; get_alerts
\* and get_weather_by_city send at most one; get_forecast sends at most two,
\* /forecast first and /weather only after /forecast has answered with a
\* payload that has `list`; when /forecast failed or lacks `list`, the
\* invocation has returned the failure text after that one GET.
C8_RequestDiscipline ==
    \A i \in Procs :
        LET fr == Load(i)
        IN  /\ Len(fr.sent) = Len(fr.recv) + (IF Awaiting(fr) THEN 1 ELSE 0)
            /\ fr.tool \in {"get_alerts", "get_weather_by_city"} => Len(fr.sent) <= 1
            /\ fr.tool = "get_forecast"
               => /\ Len(fr.sent) \in {1, 2}
                  /\ fr.sent[1].url = "https://api.openweathermap.org/data/2.5/forecast"
                  /\ Len(fr.sent) = 2
                     => /\ fr.sent[2].url
                           = "https://api.openweathermap.org/data/2.5/weather"
                        /\ fr.recv[1].kind = "ok"
                        /\ Has(fr.recv[1].body, "list")
                  /\ (/\ Len(fr.recv) >= 1
                      /\ (fr.recv[1].kind # "ok" \/ ~Has(fr.recv[1].body, "list")))
                     => /\ fr.pc = "done"
                        /\ fr.outcome = "returned"
                        /\ fr.result =
                              <<Line("Unable to fetch forecast data for this location.")>>
                        /\ Len(fr.sent) = 1
C8_Witness ==
    \E i \in Procs :
        /\ Load(i).tool = "get_forecast"
        /\ Load(i).pc = "done"
        /\ Len(Load(i).sent) = 2
        /\ Load(i).recv[2].kind = "timeout"

\* What C9 says of a returned get_alerts text, for the condition rule and the
\* temperature rule that are to fire ("" for none): at most one condition
\* alert and it is that one, at most one temperature warning and it is that
\* one, and when both fire the condition alert is line 1 and the warning
\* line 2.
C9_Ordered(fr, condition, temperature) ==
    LET conditions == SelectSeq(fr.result, IsConditionLine)
        temperatures == SelectSeq(fr.result, IsTemperatureLine)
    IN  /\ Len(conditions) = (IF condition = "" THEN 0 ELSE 1)
        /\ condition # "" => conditions[1].fmt = condition
        /\ Len(temperatures) = (IF temperature = "" THEN 0 ELSE 1)
        /\ temperature # "" => temperatures[1].fmt = temperature
        /\ (condition # "" /\ temperature # "")
           => /\ Len(fr.result) = 2
              /\ fr.result[1].fmt = condition
              /\ fr.result[2].fmt = temperature
\* C9 (as claimed): the rules are matched by substring against the
\* lower-cased category and the lower-cased description, in the priority
\* order thunderstorm, snow/blizzard, heavy rain, then heat or cold.
C9_PriorityLowerCased ==
    \A i \in Procs :
        LET fr == Load(i)
            entry == Condition(fr.recv[1].body)
        IN  (GotPayload(fr, "get_alerts") /\ fr.outcome = "returned")
            => C9_Ordered(fr,
                   ExpectedCondition(Lower(Get(entry, "main", s_empty)),
                                     Lower(Get(entry, "description", s_empty))),
                   ExpectedTemperature(Temperature(fr.recv[1].body)))
\* C9 (amended): the rules are matched by substring against the lower-cased
\* category and the description as the payload gives it (case-sensitively),
\* in the priority order thunderstorm, snow/blizzard, heavy rain, then heat
\* or cold.
C9_PriorityOrder ==
    \A i \in Procs :
        LET fr == Load(i)
            entry == Condition(fr.recv[1].body)
        IN  (GotPayload(fr, "get_alerts") /\ fr.outcome = "returned")
            => C9_Ordered(fr,
                   ExpectedCondition(Lower(Get(entry, "main", s_empty)),
                                     Get(entry, "description", s_empty)),
                   ExpectedTemperature(Temperature(fr.recv[1].body)))
C9_Witness ==
    \E i \in Procs :
        LET fr == Load(i)
            entry == Condition(fr.recv[1].body)
        IN  /\ GotPayload(fr, "get_alerts")
            /\ Get(entry, "main", s_empty) = m_Thunderstorm
            /\ Get(entry, "description", s_empty) = d_blizzard
            /\ Temperature(fr.recv[1].body) = -11
            /\ Len(fr.result) = 2
            /\ fr.result[1].fmt = "Thunderstorm Alert"
            /\ fr.result[2].fmt = "Cold Warning"

\* The frame an invocation reaches when it runs alone: the tool is called
\* with the arguments and resumed with the responses, one after the other.
RunAloneStart(tool, args) ==
    CASE tool = "get_alerts" -> get_alerts(args[1])
      [] tool = "get_forecast" -> get_forecast(args[1], args[2])
      [] tool = "get_weather_by_city" -> get_weather_by_city(args[1], args[2])
RECURSIVE RunAloneResume(_, _)
RunAloneResume(fr, responses) ==
    IF Len(responses) = 0 THEN fr
    ELSE RunAloneResume(Resume(fr, Head(responses)), Tail(responses))
RunAlone(tool, args, responses) ==
    RunAloneResume(RunAloneStart(tool, args), responses)
\* C10: whatever the interleaving of the invocations, each one's frame (the
\* GETs it has sent with their query parameters, its params mapping with
\* appid, its locals, the text it returned or the exception) is the frame the
\* same call reaches alone with the responses to its own GETs.
C10_InvocationsIndependent ==
    \A i \in Procs :
        frames[i].tool # "none"
        => Load(i) = RunAlone(frames[i].tool, frames[i].args, frames[i].recv)
C10_Witness ==
    \E i, j \in Procs :
        /\ i # j
        /\ Load(i).tool = "get_forecast"
        /\ Load(i).pc = "await_current"
        /\ Load(j).tool = "get_alerts"
        /\ Load(j).pc = "await_data"

====
